---- MODULE Spec2Model ----
(***************************************************************************)
(* A model of the navigation-history module (src/unnamed/part_000):        *)
(* createHistory (the task queue and blocker state machine), the memory    *)
(* adapter, the browser adapter together with the part of window.history   *)
(* it drives, and parseLocation.                                           *)
(*                                                                         *)
(* One action stands for one call into the module made by its environment: *)
(* a method of the RouterHistory object, a closure the module handed out   *)
(* (unsubscribe, unblock, retry, cancel), or a popstate event delivered by *)
(* the platform.  JavaScript runs each of them to completion, so each is   *)
(* one atomic step.                                                        *)
(*                                                                         *)
(* Environment assumptions: listener callbacks and blocker functions are   *)
(* opaque; they do not call back into the history object synchronously     *)
(* (a blocker calls retry / cancel / unblock as later, separate steps;     *)
(* since tryFlush returns right after invoking the blocker, a synchronous  *)
(* call from inside the blocker has the same effect).  One history object  *)
(* is created per window.  Strings are sequences of one-character strings. *)
(* The random key that pushState/replaceState add to the state payload is  *)
(* not represented: a state payload is a token.                            *)
(***************************************************************************)
EXTENDS Integers, Sequences, FiniteSets, TLC

\* ------------------------------------------------------------------ bounds
MaxOps == 2        \* mutating calls (push/replace/go/back/forward) issued, Spec
MaxSubOps == 1     \* mutating calls issued, SpecSub
MaxListens == 2    \* calls of listen
MaxCalls == 2      \* calls of one unsubscribe closure
MaxHrefLen == 3    \* length of an href handed to parseLocation, SpecParse

\* ----------------------------------------------------------- input domains
PathA == <<"/", "a">>
PathB == <<"/", "b", "?", "q", "#", "h">>
Paths == {PathA, PathB}
States == {"s1"}
NoState == "none"
Deltas == {-1, 1}
Callbacks == {"cb1", "cb2"}
BlockerFns == {"bf1", "bf2"}
InitialEntries == {<<PathA, PathB>>}
Kinds == {"memory", "browser"}
HrefChars == {"/", "a", "?", "#"}
Hrefs == UNION {[1..n -> HrefChars] : n \in 0..MaxHrefLen}

\* --------------------------------------------------------- string helpers
Min(a, b) == IF a < b THEN a ELSE b

\* String.prototype.indexOf for a one-character needle: 0-based, -1 if absent
IndexOf(str, ch) ==
  IF \E i \in 1..Len(str) : str[i] = ch
  THEN (CHOOSE i \in 1..Len(str) : str[i] = ch /\ \A j \in 1..(i - 1) : str[j] # ch) - 1
  ELSE -1

\* String.prototype.slice(from, to) for 0 <= from, 0 <= to (0-based, end
\* exclusive): '' when from >= to.
Slice(str, from, to) ==
  LET t == Min(to, Len(str))
  IN IF from >= t THEN <<>> ELSE SubSeq(str, from + 1, t)

\* String.prototype.substring(from, to): the two bounds are swapped when
\* from > to, and clamped to the length.
Substring(str, from, to) ==
  LET lo == Min(Min(from, to), Len(str))
      hi == Min(IF from > to THEN from ELSE to, Len(str))
  IN IF lo >= hi THEN <<>> ELSE SubSeq(str, lo + 1, hi)

\* ------------------------------------------------------------ parseLocation
parseLocation(href, state) ==
  LET hashIndex == IndexOf(href, "#")
      searchIndex == IndexOf(href, "?")
  IN [href |-> href,
      pathname |-> Substring(href, 0,
                     IF hashIndex > 0
                     THEN (IF searchIndex > 0 THEN Min(hashIndex, searchIndex) ELSE hashIndex)
                     ELSE (IF searchIndex > 0 THEN searchIndex ELSE Len(href))),
      hash |-> IF hashIndex > -1 THEN Substring(href, hashIndex, Len(href)) ELSE <<>>,
      search |-> IF searchIndex > -1
                 THEN Slice(href, searchIndex, IF hashIndex = -1 THEN Len(href) ELSE hashIndex)
                 ELSE <<>>,
      state |-> state]

\* ------------------------------------------------------------------- state
VARIABLES
  kind,           \* which factory built the history: "memory" or "browser"
  location,       \* createHistory: let location
  unsub,          \* createHistory: let unsub (the platform teardown closure)
  listeners,      \* createHistory: let listeners (a Set of callbacks)
  blockers,       \* createHistory: let blockers
  queue,          \* createHistory: let queue
  entries,        \* createMemoryHistory: const entries (array elements)
  entriesProps,   \* createMemoryHistory: properties of entries at negative keys
  index,          \* createMemoryHistory: let index (0-based)
  currentState,   \* createMemoryHistory: let currentState
  winEntries,     \* window.history: the session history, records [url, state]
  winIndex,       \* window.history: position of the current entry (1-based)
  winPending,     \* window.history: traversals asked for, not yet performed
  winPatchDepth,  \* how many wrappers are stacked on window.history.pushState/replaceState
  winListening,   \* onUpdate is registered for the popstate/pushstate events
  unloadGuard,    \* beforeUnloadListener is registered for beforeunload
  unsubFns,       \* unsubscribe closures returned by listen: [cb, calls]
  unblockFns,     \* blocker functions for which block returned an unblock closure
  contIssued,     \* a blocker has been handed the retry/cancel continuations
  issued,         \* history: the mutating calls, in the order they were made
  executed,       \* history: the adapter calls made by queued tasks, in order
  voided,         \* history: positions in issued of tasks pending at a cancel
  err,            \* the last call threw
  notified,       \* how often each callback was invoked during the last call
  subInstalls,    \* invocations of opts.listener during the last call
  subTeardowns,   \* invocations of a platform teardown during the last call
  invoked,        \* blocker functions invoked during the last call
  ran             \* how many queued tasks the last call executed

vars == <<kind, location, unsub, listeners, blockers, queue, entries, entriesProps,
          index, currentState, winEntries, winIndex, winPending, winPatchDepth,
          winListening, unloadGuard, unsubFns, unblockFns, contIssued, issued,
          executed, voided, err, notified, subInstalls, subTeardowns, invoked, ran>>

\* The state as one record, so that the functions of the module can be
\* written as operators from state to state.
Cur ==
  [kind |-> kind, location |-> location, unsub |-> unsub, listeners |-> listeners,
   blockers |-> blockers, queue |-> queue, entries |-> entries,
   entriesProps |-> entriesProps, index |-> index, currentState |-> currentState,
   winEntries |-> winEntries, winIndex |-> winIndex, winPending |-> winPending,
   winPatchDepth |-> winPatchDepth, winListening |-> winListening,
   unloadGuard |-> unloadGuard, unsubFns |-> unsubFns, unblockFns |-> unblockFns,
   contIssued |-> contIssued, issued |-> issued, executed |-> executed,
   voided |-> voided, err |-> err, notified |-> notified,
   subInstalls |-> subInstalls, subTeardowns |-> subTeardowns, invoked |-> invoked,
   ran |-> ran]

Commit(s) ==
  /\ kind' = s.kind /\ location' = s.location /\ unsub' = s.unsub
  /\ listeners' = s.listeners /\ blockers' = s.blockers /\ queue' = s.queue
  /\ entries' = s.entries /\ entriesProps' = s.entriesProps /\ index' = s.index
  /\ currentState' = s.currentState /\ winEntries' = s.winEntries
  /\ winIndex' = s.winIndex /\ winPending' = s.winPending
  /\ winPatchDepth' = s.winPatchDepth /\ winListening' = s.winListening
  /\ unloadGuard' = s.unloadGuard /\ unsubFns' = s.unsubFns
  /\ unblockFns' = s.unblockFns /\ contIssued' = s.contIssued
  /\ issued' = s.issued /\ executed' = s.executed /\ voided' = s.voided
  /\ err' = s.err /\ notified' = s.notified
  /\ subInstalls' = s.subInstalls /\ subTeardowns' = s.subTeardowns
  /\ invoked' = s.invoked /\ ran' = s.ran

NoneNotified == [c \in Callbacks |-> 0]

\* The state at the start of a call: the per-call observations are reset.
Begin ==
  [Cur EXCEPT !.err = FALSE, !.notified = NoneNotified,
              !.subInstalls = 0, !.subTeardowns = 0, !.invoked = <<>>, !.ran = 0]

\* A queued task: the closure push/replace/go/back/forward hands to queueTask.
Task(op, path, state, n) == [op |-> op, path |-> path, state |-> state, n |-> n]

NoopUnsub == [kind |-> "noop", saved |-> 0]

\* ----------------------------------------------------------- window.history
\* window.location as the URL parser splits it: the fragment starts at the
\* first '#', the query at the first '?' before it; an empty query or
\* fragment ('?' or '#' alone) reads back as ''.
WinLocationParts(url) ==
  LET h == IndexOf(url, "#")
      beforeHash == IF h = -1 THEN url ELSE SubSeq(url, 1, h)
      q == IndexOf(beforeHash, "?")
      hashPart == IF h = -1 THEN <<>> ELSE SubSeq(url, h + 1, Len(url))
      searchPart == IF q = -1 THEN <<>> ELSE SubSeq(beforeHash, q + 1, Len(beforeHash))
  IN [pathname |-> IF q = -1 THEN beforeHash ELSE SubSeq(beforeHash, 1, q),
      search |-> IF Len(searchPart) = 1 THEN <<>> ELSE searchPart,
      hash |-> IF Len(hashPart) = 1 THEN <<>> ELSE hashPart]

\* createBrowserHistory: getHref
BrowserGetHref(s) ==
  LET l == WinLocationParts(s.winEntries[s.winIndex].url)
  IN l.pathname \o l.search \o l.hash

\* createBrowserHistory: getLocation
BrowserGetLocation(s) == parseLocation(BrowserGetHref(s), s.winEntries[s.winIndex].state)

\* createMemoryHistory: entries[index], which is undefined outside the array
\* unless replaceState has set a property at that (negative) key
MemHasEntry(s) ==
  \/ s.index \in 0..(Len(s.entries) - 1)
  \/ \E r \in s.entriesProps : r.k = s.index

MemEntry(s) ==
  IF s.index \in 0..(Len(s.entries) - 1)
  THEN s.entries[s.index + 1]
  ELSE (CHOOSE r \in s.entriesProps : r.k = s.index).v

\* createMemoryHistory: getLocation; parseLocation(undefined) throws
MemGetLocation(s) == parseLocation(MemEntry(s), s.currentState)

\* opts.getLocation()
GetLocationThrows(s) == s.kind = "memory" /\ ~MemHasEntry(s)

GetLocation(s) == IF s.kind = "memory" THEN MemGetLocation(s) ELSE BrowserGetLocation(s)

\* opts.listener is a function (browser) or false (memory)
HasListener(s) == s.kind = "browser"

\* createHistory: onUpdate
OnUpdate(s) ==
  IF GetLocationThrows(s)
  THEN [s EXCEPT !.err = TRUE]
  ELSE [s EXCEPT !.location = GetLocation(s),
                 !.notified = [c \in Callbacks |->
                                 IF c \in s.listeners THEN s.notified[c] + 1
                                 ELSE s.notified[c]]]

\* n nested wrappers around the native pushState/replaceState: each calls
\* onUpdate after the call it wraps has returned.
RECURSIVE WrapperUpdates(_, _)
WrapperUpdates(s, n) ==
  IF n = 0 \/ s.err THEN s ELSE WrapperUpdates(OnUpdate(s), n - 1)

\* window.history.pushState(state, '', url): the entries after the current
\* one are dropped, the new one becomes current; then the wrappers run.
WinPushState(s, url, state) ==
  WrapperUpdates(
    [s EXCEPT !.winEntries = Append(SubSeq(s.winEntries, 1, s.winIndex),
                                    [url |-> url, state |-> state]),
              !.winIndex = s.winIndex + 1],
    s.winPatchDepth)

\* window.history.replaceState(state, '', url)
WinReplaceState(s, url, state) ==
  WrapperUpdates(
    [s EXCEPT !.winEntries[s.winIndex] = [url |-> url, state |-> state]],
    s.winPatchDepth)

\* window.history.go(n) / back() / forward(): the traversal is performed
\* asynchronously, see PopState.
WinGo(s, n) == [s EXCEPT !.winPending = Append(s.winPending, n)]

\* ---------------------------------------------------- createMemoryHistory
MemPushState(s, path, state) ==
  [s EXCEPT !.currentState = state,
            !.entries = Append(s.entries, path),
            !.index = s.index + 1]

MemReplaceState(s, path, state) ==
  IF s.index \in 0..(Len(s.entries) - 1)
  THEN [s EXCEPT !.currentState = state, !.entries[s.index + 1] = path]
  ELSE [s EXCEPT !.currentState = state,
                 !.entriesProps = {r \in s.entriesProps : r.k # s.index}
                                    \cup {[k |-> s.index, v |-> path]}]

MemBack(s) == [s EXCEPT !.index = s.index - 1]

\* forward without the clamp at the last entry
MemForward_noClamp(s) == [s EXCEPT !.index = s.index + 1]

MemForward(s) == [s EXCEPT !.index = Min(s.index + 1, Len(s.entries) - 1)]

MemGo(s, n) == WinGo(s, n)

\* --------------------------------------------------- createBrowserHistory
BrowserCreateHref(path) == path

BrowserPushState(s, path, state) == WinPushState(s, BrowserCreateHref(path), state)

BrowserReplaceState(s, path, state) == WinReplaceState(s, BrowserCreateHref(path), state)

BrowserBack(s) == WinGo(s, -1)

BrowserForward(s) == WinGo(s, 1)

BrowserGo(s, n) == WinGo(s, n)

\* createBrowserHistory: listener(onUpdate): registers onUpdate for the
\* events, wraps pushState/replaceState, and returns the closure that
\* restores what it saved.
BrowserListener(s) ==
  [s EXCEPT !.winListening = TRUE,
            !.unsub = [kind |-> "restore", saved |-> s.winPatchDepth],
            !.winPatchDepth = s.winPatchDepth + 1,
            !.subInstalls = s.subInstalls + 1]

\* the closure returned by the listener option (or () => {})
CallUnsub(s) ==
  IF s.unsub.kind = "noop"
  THEN s
  ELSE [s EXCEPT !.winPatchDepth = s.unsub.saved,
                 !.winListening = FALSE,
                 !.subTeardowns = s.subTeardowns + 1]

\* ----------------------------------------------------------- createHistory
\* The body of a queued task: the call of the adapter primitive.
RunTask(s, t) ==
  LET s1 == [s EXCEPT !.executed = Append(s.executed, t), !.ran = s.ran + 1]
  IN IF s.kind = "memory"
     THEN CASE t.op = "push" -> MemPushState(s1, t.path, t.state)
            [] t.op = "replace" -> MemReplaceState(s1, t.path, t.state)
            [] t.op = "go" -> MemGo(s1, t.n)
            [] t.op = "back" -> MemBack(s1)
            [] t.op = "forward" -> MemForward(s1)
     ELSE CASE t.op = "push" -> BrowserPushState(s1, t.path, t.state)
            [] t.op = "replace" -> BrowserReplaceState(s1, t.path, t.state)
            [] t.op = "go" -> BrowserGo(s1, t.n)
            [] t.op = "back" -> BrowserBack(s1)
            [] t.op = "forward" -> BrowserForward(s1)

\* tryFlush: while (queue.length) queue.shift()?.()
RECURSIVE Drain(_)
Drain(s) ==
  IF s.queue = <<>> \/ s.err
  THEN s
  ELSE Drain(RunTask([s EXCEPT !.queue = Tail(s.queue)], Head(s.queue)))

\* stopBlocking
StopBlocking(s) == [s EXCEPT !.unloadGuard = FALSE]

\* tryFlush notifying after the drain whatever the adapter
TryFlush_alwaysUpdates(s) ==
  IF Len(s.blockers) > 0
  THEN [s EXCEPT !.invoked = Append(s.invoked, s.blockers[1]), !.contIssued = TRUE]
  ELSE LET d == Drain(s)
       IN IF d.err THEN d ELSE OnUpdate(d)

\* tryFlush notifying only when the drain has run a task
TryFlush_skipsEmptyFlush(s) ==
  IF Len(s.blockers) > 0
  THEN [s EXCEPT !.invoked = Append(s.invoked, s.blockers[1]), !.contIssued = TRUE]
  ELSE LET d == Drain(s)
       IN IF d.err THEN d
          ELSE IF ~HasListener(d) /\ s.queue # <<>> THEN OnUpdate(d) ELSE d

\* tryFlush asking every blocker of the list instead of the first
TryFlush_asksAll(s) ==
  IF Len(s.blockers) > 0
  THEN [s EXCEPT !.invoked = s.invoked \o s.blockers, !.contIssued = TRUE]
  ELSE LET d == Drain(s)
       IN IF d.err THEN d
          ELSE IF ~HasListener(d) THEN OnUpdate(d) ELSE d

\* tryFlush without the check of the blocker list
TryFlush_noBlockCheck(s) ==
  LET d == Drain(s)
  IN IF d.err THEN d
     ELSE IF ~HasListener(d) THEN OnUpdate(d) ELSE d

\* createHistory: tryFlush
TryFlush(s) ==
  IF Len(s.blockers) > 0
  THEN [s EXCEPT !.invoked = Append(s.invoked, s.blockers[1]), !.contIssued = TRUE]
  ELSE LET d == Drain(s)
       IN IF d.err THEN d
          ELSE IF ~HasListener(d) THEN OnUpdate(d) ELSE d

\* queueTask putting the task at the head of the queue
QueueTask_atHead(s, task) ==
  TryFlush([s EXCEPT !.queue = <<task>> \o s.queue,
                     !.issued = Append(s.issued, task)])

\* createHistory: queueTask
QueueTask(s, task) ==
  TryFlush([s EXCEPT !.queue = Append(s.queue, task),
                     !.issued = Append(s.issued, task)])

\* a cancel continuation that also empties the task queue
CancelCont_dropsQueue(s) ==
  StopBlocking([s EXCEPT !.blockers = <<>>, !.queue = <<>>,
                         !.voided = s.voided \cup ((Len(s.executed) + 1)..Len(s.issued))])

\* a cancel continuation that removes the active blocker only
CancelCont_removesFirst(s) ==
  LET s1 == [s EXCEPT !.blockers = IF s.blockers = <<>> THEN <<>> ELSE Tail(s.blockers),
                      !.voided = s.voided \cup ((Len(s.executed) + 1)..Len(s.issued))]
  IN IF s1.blockers = <<>> THEN StopBlocking(s1) ELSE s1

\* a cancel continuation that goes on to flush the queue
CancelCont_flushes(s) ==
  TryFlush(StopBlocking([s EXCEPT !.blockers = <<>>,
                         !.voided = s.voided \cup ((Len(s.executed) + 1)..Len(s.issued))]))

\* the cancel continuation tryFlush hands to the blocker
CancelCont(s) ==
  StopBlocking([s EXCEPT !.blockers = <<>>,
                         !.voided = s.voided \cup ((Len(s.executed) + 1)..Len(s.issued))])

\* createHistory: listen
ListenFn(s, cb) ==
  LET s1 == IF s.listeners = {}
            THEN (IF HasListener(s) THEN BrowserListener(s)
                  ELSE [s EXCEPT !.unsub = NoopUnsub])
            ELSE s
  IN [s1 EXCEPT !.listeners = s1.listeners \cup {cb},
                !.unsubFns = Append(s1.unsubFns, [cb |-> cb, calls |-> 0])]

\* an unsubscribe closure that tears down without looking at the set size
UnsubscribeFn_alwaysTeardown(s, i) ==
  CallUnsub([s EXCEPT !.listeners = s.listeners \ {s.unsubFns[i].cb},
                      !.unsubFns[i].calls = s.unsubFns[i].calls + 1])

\* an unsubscribe closure that clears the set instead of deleting its callback
UnsubscribeFn_clearsAll(s, i) ==
  CallUnsub([s EXCEPT !.listeners = {},
                      !.unsubFns[i].calls = s.unsubFns[i].calls + 1])

\* the closure listen returns, for the i-th call of listen
UnsubscribeFn(s, i) ==
  LET s1 == [s EXCEPT !.listeners = s.listeners \ {s.unsubFns[i].cb},
                      !.unsubFns[i].calls = s.unsubFns[i].calls + 1]
  IN IF s1.listeners = {} THEN CallUnsub(s1) ELSE s1

\* createHistory: block
BlockFn(s, fn) ==
  LET s1 == [s EXCEPT !.blockers = Append(s.blockers, fn),
                      !.unblockFns = s.unblockFns \cup {fn}]
  IN IF Len(s1.blockers) = 1 THEN [s1 EXCEPT !.unloadGuard = TRUE] ELSE s1

\* an unblock closure that never removes the unload guard
UnblockFn_keepsGuard(s, fn) ==
  [s EXCEPT !.blockers = SelectSeq(s.blockers, LAMBDA b : b # fn)]

\* the closure block returns, for the blocker function fn
UnblockFn(s, fn) ==
  LET s1 == [s EXCEPT !.blockers = SelectSeq(s.blockers, LAMBDA b : b # fn)]
  IN IF Len(s1.blockers) = 0 THEN StopBlocking(s1) ELSE s1

\* The platform performs the oldest pending traversal; when the target
\* exists it becomes current and popstate is dispatched.
PopStateEvent(s) ==
  LET target == s.winIndex + Head(s.winPending)
      s1 == [s EXCEPT !.winPending = Tail(s.winPending)]
  IN IF target \in 1..Len(s.winEntries)
     THEN LET s2 == [s1 EXCEPT !.winIndex = target]
          IN IF s2.winListening THEN OnUpdate(s2) ELSE s2
     ELSE s1

\* ------------------------------------------------------------------ actions
InitWindow == <<[url |-> PathA, state |-> NoState]>>

Init ==
  /\ kind \in Kinds
  /\ entries \in InitialEntries
  /\ index \in 0..(Len(entries) - 1)
  /\ kind = "browser" => (index = 0)
  /\ entriesProps = {}
  /\ currentState = NoState
  /\ winEntries = InitWindow
  /\ winIndex = 1
  /\ winPending = <<>>
  /\ winPatchDepth = 0
  /\ winListening = FALSE
  /\ unloadGuard = FALSE
  /\ location = IF kind = "memory"
                THEN parseLocation(entries[index + 1], NoState)
                ELSE parseLocation(PathA, NoState)
  /\ unsub = NoopUnsub
  /\ listeners = {}
  /\ blockers = <<>>
  /\ queue = <<>>
  /\ unsubFns = <<>>
  /\ unblockFns = {}
  /\ contIssued = FALSE
  /\ issued = <<>>
  /\ executed = <<>>
  /\ voided = {}
  /\ err = FALSE
  /\ notified = NoneNotified
  /\ subInstalls = 0
  /\ subTeardowns = 0
  /\ invoked = <<>>
  /\ ran = 0

\* push(path, state)
Push(max) ==
  /\ Len(issued) < max
  /\ \E p \in Paths, st \in States :
       Commit(QueueTask(Begin, Task("push", p, st, 0)))

\* replace(path, state)
Replace(max) ==
  /\ Len(issued) < max
  /\ \E p \in Paths, st \in States :
       Commit(QueueTask(Begin, Task("replace", p, st, 0)))

\* go(index)
Go(max) ==
  /\ Len(issued) < max
  /\ \E n \in Deltas :
       Commit(QueueTask(Begin, Task("go", <<>>, NoState, n)))

\* back()
Back(max) ==
  /\ Len(issued) < max
  /\ Commit(QueueTask(Begin, Task("back", <<>>, NoState, 0)))

\* forward()
Forward(max) ==
  /\ Len(issued) < max
  /\ Commit(QueueTask(Begin, Task("forward", <<>>, NoState, 0)))

\* listen(cb).  Callbacks are told apart by identity only, so the first one
\* ever registered is taken to be cb1.
Listen ==
  /\ Len(unsubFns) < MaxListens
  /\ \E cb \in Callbacks :
       /\ unsubFns = <<>> => cb = "cb1"
       /\ Commit(ListenFn(Begin, cb))

\* a call of an unsubscribe closure
Unsubscribe ==
  \E i \in 1..Len(unsubFns) :
    /\ unsubFns[i].calls < MaxCalls
    /\ Commit(UnsubscribeFn(Begin, i))

\* block(fn).  Blocker functions are told apart by identity only, so the
\* first one ever registered is taken to be bf1; the list holds at most as
\* many registrations as there are blocker functions (the same function
\* may be registered twice).
Block ==
  /\ Len(blockers) < Cardinality(BlockerFns)
  /\ \E fn \in BlockerFns :
       /\ unblockFns = {} => fn = "bf1"
       /\ Commit(BlockFn(Begin, fn))

\* a call of an unblock closure
Unblock ==
  \E fn \in unblockFns : Commit(UnblockFn(Begin, fn))

\* a blocker calls the retry continuation (tryFlush itself)
Retry ==
  /\ contIssued
  /\ Commit(TryFlush(Begin))

\* a blocker calls the cancel continuation
Cancel ==
  /\ contIssued
  /\ Commit(CancelCont(Begin))

\* the platform performs a pending traversal
PopState ==
  /\ winPending # <<>>
  /\ Commit(PopStateEvent(Begin))

\* The task queue and the blockers, on both adapters, with no listener.
Next ==
  \/ Push(MaxOps)
  \/ Replace(MaxOps)
  \/ Go(MaxOps)
  \/ Back(MaxOps)
  \/ Forward(MaxOps)
  \/ Block
  \/ Unblock
  \/ Retry
  \/ Cancel
  \/ PopState

Spec == Init /\ [][Next]_vars

\* Listeners and the platform subscription, with a few navigations.
NextSub ==
  \/ Listen
  \/ Unsubscribe
  \/ Push(MaxSubOps)
  \/ Replace(MaxSubOps)
  \/ Go(MaxSubOps)
  \/ Back(MaxSubOps)
  \/ Forward(MaxSubOps)
  \/ PopState

SpecSub == Init /\ [][NextSub]_vars

\* parseLocation on every short href: a memory history is created on the
\* single entry href (getLocation parses it at construction), and forward()
\* or replace() make the flush parse the current entry again.
InitParse ==
  /\ kind = "memory"
  /\ entries \in {<<h>> : h \in Hrefs}
  /\ index = 0
  /\ entriesProps = {}
  /\ currentState = NoState
  /\ winEntries = InitWindow
  /\ winIndex = 1
  /\ winPending = <<>>
  /\ winPatchDepth = 0
  /\ winListening = FALSE
  /\ unloadGuard = FALSE
  /\ location = parseLocation(entries[index + 1], NoState)
  /\ unsub = NoopUnsub
  /\ listeners = {}
  /\ blockers = <<>>
  /\ queue = <<>>
  /\ unsubFns = <<>>
  /\ unblockFns = {}
  /\ contIssued = FALSE
  /\ issued = <<>>
  /\ executed = <<>>
  /\ voided = {}
  /\ err = FALSE
  /\ notified = NoneNotified
  /\ subInstalls = 0
  /\ subTeardowns = 0
  /\ invoked = <<>>
  /\ ran = 0

NextParse ==
  \/ Forward(MaxSubOps)
  \/ Replace(MaxSubOps)

SpecParse == InitParse /\ [][NextParse]_vars

\* block(fn) while no blocker is installed
BlockOne ==
  /\ blockers = <<>>
  /\ Block

\* Listeners together with the task queue and one blocker at a time.
NextNote ==
  \/ Listen
  \/ Push(MaxOps)
  \/ Replace(MaxOps)
  \/ Go(MaxOps)
  \/ Back(MaxOps)
  \/ Forward(MaxOps)
  \/ BlockOne
  \/ Unblock
  \/ Retry
  \/ PopState

SpecNote == Init /\ [][NextNote]_vars

\* ------------------------------------------------------------------- claims

\* C1: at every reachable state the adapter calls already executed, followed
\* by the pending queue, are the mutating calls in the order they were
\* issued: no task is dropped or reordered.
C1_OrderPreserved == executed \o queue = issued

\* a task has run, another is waiting behind a blocker, and they differ
C1_Witness ==
  /\ Len(executed) >= 1 /\ Len(queue) >= 1 /\ Len(blockers) >= 1
  /\ executed[1] # queue[1]

\* C2 (as claimed, for a blocker that calls retry after it has been removed):
\* on the memory adapter, when push(A) is the one pending task and retry is
\* called with no blocker left, location reflects A afterwards.
C2_RetryAppliesPush ==
  [][(/\ kind = "memory" /\ blockers = <<>>
      /\ Len(queue) = 1 /\ queue[1].op = "push"
      /\ Retry)
     => location'.href = queue[1].path]_vars

\* C3 (as claimed): a task that was pending when cancel was called is never
\* applied to the adapter afterwards.
C3_CancelledNeverApplied == \A i \in voided : i > Len(executed)

\* C3 (amended): cancel empties the blocker list and removes the unload
\* guard, leaves location and the adapter untouched and applies no task; the
\* pending tasks stay in the queue.
C3_CancelLeavesQueued ==
  [][Cancel => /\ blockers' = <<>> /\ ~unloadGuard'
               /\ location' = location
               /\ executed' = executed /\ queue' = queue
               /\ entries' = entries /\ index' = index
               /\ winEntries' = winEntries /\ winIndex' = winIndex]_vars

\* cancel was called with a push pending, which is still queued
C3_Witness ==
  /\ voided # {} /\ blockers = <<>> /\ ~unloadGuard
  /\ queue # <<>> /\ queue[1].op = "push" /\ executed = <<>>

\* C4: a step that executes queued tasks starts from an empty blocker list,
\* and a call of an unblock closure executes none.
C4_NoRunWhileBlocked ==
  [][/\ (executed' # executed => blockers = <<>>)
     /\ (Unblock => executed' = executed /\ queue' = queue)]_vars

\* the last blocker was removed by its unblock closure (no cancel), and the
\* task queued behind it is still waiting
C4_Witness ==
  /\ blockers = <<>> /\ unblockFns # {} /\ contIssued
  /\ voided = {} /\ queue # <<>> /\ executed = <<>>

\* C5 (as claimed): the cursor of a memory history stays within
\* [0, entries.length - 1].
C5_CursorInRange == kind = "memory" => index \in 0..(Len(entries) - 1)

\* C6: on a memory history with nothing pending, back() at cursor i >= 1
\* moves location to the entry at i - 1; forward() below the last index
\* moves to the next entry (so back() then forward() returns to i); and
\* forward() at the last index leaves cursor and location.href unchanged.
C6_BackForward ==
  [][(kind = "memory" /\ blockers = <<>> /\ queue = <<>>) =>
       /\ (Back(MaxOps) /\ index >= 1) =>
            /\ index' = index - 1 /\ entries' = entries
            /\ location'.href = entries[index]
       /\ (Forward(MaxOps) /\ index \in 0..(Len(entries) - 2)) =>
            /\ index' = index + 1 /\ entries' = entries
            /\ location'.href = entries[index + 2]
       /\ (Forward(MaxOps) /\ index = Len(entries) - 1) =>
            /\ index' = index /\ entries' = entries
            /\ location'.href = location.href]_vars

\* from ['/a','/b'] at index 1: back() then forward() is at '/b' again
C6_Witness ==
  /\ kind = "memory" /\ Len(issued) = 2 /\ executed = issued
  /\ issued[1].op = "back" /\ issued[2].op = "forward"
  /\ index = 1 /\ entries = <<PathA, PathB>> /\ location.href = PathB

\* C7 (as claimed): on the browser adapter a call installs the platform
\* subscription exactly when it takes the listener set from empty to
\* non-empty, and tears it down exactly when it takes the set from
\* non-empty to empty; no other call installs or tears down.
C7_OncePerTransition ==
  [][kind = "browser" =>
       /\ subInstalls' = (IF listeners = {} /\ listeners' # {} THEN 1 ELSE 0)
       /\ subTeardowns' = (IF listeners # {} /\ listeners' = {} THEN 1 ELSE 0)]_vars

\* the platform subscription of the browser adapter
SubscriptionActive == winListening /\ winPatchDepth = 1

SubscriptionInactive == ~winListening /\ winPatchDepth = 0

\* C8: on the browser adapter the platform subscription is active if and
\* only if the listener set is non-empty.
C8_ActiveIffListeners ==
  kind = "browser" =>
    IF listeners # {} THEN SubscriptionActive ELSE SubscriptionInactive

\* two callbacks were registered and one has unsubscribed
C8_Witness ==
  /\ kind = "browser" /\ Cardinality(listeners) = 1 /\ Len(unsubFns) = 2
  /\ \E i \in 1..Len(unsubFns) : unsubFns[i].calls >= 1

\* C9 (as claimed): a repeated call of an unsubscribe closure raises no
\* error and leaves the listener set as it was.
C9_RepeatChangesNothing ==
  [][\A i \in 1..Len(unsubFns) :
       (unsubFns[i].calls >= 1 /\ unsubFns'[i].calls = unsubFns[i].calls + 1)
         => (~err' /\ listeners' = listeners)]_vars

\* C9 (amended): a repeated call of an unsubscribe closure raises no error
\* and removes at most its own callback (registered again in the meantime);
\* every other callback remains registered.
C9_RepeatRemovesOnlyOwn ==
  [][\A i \in 1..Len(unsubFns) :
       (unsubFns[i].calls >= 1 /\ unsubFns'[i].calls = unsubFns[i].calls + 1)
         => (~err' /\ listeners' = listeners \ {unsubFns[i].cb})]_vars

\* a closure has been called twice while another callback is registered
C9_Witness ==
  \E i \in 1..Len(unsubFns) :
    /\ unsubFns[i].calls >= 2
    /\ \E c \in listeners : c # unsubFns[i].cb

\* C10: the page-unload guard is installed if and only if the blocker list
\* is non-empty.
C10_GuardIffBlockers == unloadGuard <=> (blockers # <<>>)

\* blockers were installed and asked, and the list is empty again
C10_Witness ==
  /\ blockers = <<>> /\ ~unloadGuard /\ unblockFns = BlockerFns /\ contIssued
\* the tasks a step has executed
NewlyExecuted == SubSeq(executed', Len(executed) + 1, Len(executed'))

\* C11 (as claimed, for the adapter with a native change event): after a
\* step that executed queued push/replace/back/forward tasks, location is
\* the location computed from the adapter's source of truth.
C11_LocationFresh ==
  [][(/\ kind = "browser"
      /\ executed' # executed
      /\ \A k \in 1..Len(NewlyExecuted) : NewlyExecuted[k].op # "go")
     => location' = GetLocation(Cur')]_vars
\* C13: a call asks at most one blocker, and only the first of the list;
\* every flush attempt made with blockers installed (a mutating call or
\* retry) asks exactly that one, so a later blocker is asked only once
\* every blocker ahead of it has been removed.
C13_OnlyFirstBlockerAsked ==
  [][/\ Len(invoked') <= 1
     /\ invoked' # <<>> => (blockers # <<>> /\ invoked' = <<blockers[1]>>)
     /\ ((issued' # issued \/ Retry) /\ blockers # <<>>)
          => (invoked' = <<blockers[1]>> /\ blockers' = blockers)]_vars

\* two different blockers are installed and the first one has been asked
C13_Witness ==
  /\ Len(blockers) = 2 /\ blockers[1] # blockers[2]
  /\ invoked = <<blockers[1]>> /\ queue # <<>>

\* C14: cancel changes the blocker list and the unload guard only (no task
\* runs, no blocker is asked, no listener is notified), and the next
\* mutating call made with no blocker installed executes the tasks left
\* pending, in their order, and then its own task.
C14_CancelFrame ==
  [][/\ Cancel =>
          /\ UNCHANGED <<location, queue, executed, issued, entries, entriesProps,
                         index, currentState, winEntries, winIndex, winPending,
                         winPatchDepth, winListening, listeners, unsub>>
          /\ invoked' = <<>> /\ notified' = NoneNotified /\ ~err'
     /\ (issued' # issued /\ blockers = <<>>) =>
          /\ queue' = <<>>
          /\ executed' = executed \o queue \o <<issued'[Len(issued')]>>]_vars

\* the task that was pending at cancel has run, followed by a later one
C14_Witness ==
  /\ voided = {1} /\ Len(executed) = 2 /\ executed = issued /\ queue = <<>>
  /\ blockers = <<>>

\* the four parts of the state the cancel continuation is observed on
SameAfterCancel(a, b) ==
  /\ a.blockers = b.blockers /\ a.unloadGuard = b.unloadGuard
  /\ a.queue = b.queue /\ a.location = b.location

\* C15: from every state in which the cancel continuation exists, calling
\* it a second time, directly or after a new blocker has been installed,
\* leaves blocker list, unload guard, queue and location as they were after
\* the first call.
C15_CancelIdempotent ==
  contIssued =>
    LET first == CancelCont(Cur)
    IN /\ SameAfterCancel(CancelCont(first), first)
       /\ \A fn \in BlockerFns :
            SameAfterCancel(CancelCont(BlockFn(first, fn)), first)

\* cancel was called with task 1 pending and again, behind a new blocker,
\* with task 2 pending after task 1 had run
C15_Witness ==
  /\ voided = {1, 2} /\ Len(executed) = 1 /\ Len(queue) = 1
  /\ blockers = <<>> /\ ~unloadGuard

\* C18 (as claimed): on a memory history with no blocker and nothing
\* pending, location.href is the pushed path when push returns.
C18_PushSetsHref ==
  [][(kind = "memory" /\ blockers = <<>> /\ queue = <<>> /\ Push(MaxOps))
     => location'.href = issued'[Len(issued')].path]_vars

\* C20 (as claimed): on a memory history with no blocker and nothing
\* pending, go(-1) moves the cursor as back() does and go(1) as forward()
\* does.
C20_GoLikeBackForward ==
  [][(kind = "memory" /\ blockers = <<>> /\ queue = <<>> /\ Go(MaxOps))
     => index' = (IF issued'[Len(issued')].n = -1
                  THEN MemBack(Cur).index
                  ELSE MemForward(Cur).index)]_vars
\* C16 (as claimed): the parts of a parsed location reassemble its href.
C16_PartsReassemble ==
  location.href = location.pathname \o location.search \o location.hash

\* the reference split of an href: 0-based positions of the first '#', the
\* first '?', and of whichever comes first (the length if there is none)
RefHashAt(href) == IndexOf(href, "#")

RefSearchAt(href) == IndexOf(href, "?")

RefPathEnd(href) ==
  IF RefHashAt(href) = -1 /\ RefSearchAt(href) = -1 THEN Len(href)
  ELSE IF RefHashAt(href) = -1 THEN RefSearchAt(href)
  ELSE IF RefSearchAt(href) = -1 THEN RefHashAt(href)
  ELSE Min(RefHashAt(href), RefSearchAt(href))

RefPathname(href) == SubSeq(href, 1, RefPathEnd(href))

RefHash(href) ==
  IF RefHashAt(href) = -1 THEN <<>> ELSE SubSeq(href, RefHashAt(href) + 1, Len(href))

RefSearch(href) ==
  IF RefSearchAt(href) = -1 THEN <<>>
  ELSE IF RefHashAt(href) = -1 THEN SubSeq(href, RefSearchAt(href) + 1, Len(href))
  ELSE IF RefSearchAt(href) < RefHashAt(href)
       THEN SubSeq(href, RefSearchAt(href) + 1, RefHashAt(href))
       ELSE <<>>

\* C17 (as claimed): the parsed location agrees with the reference split of
\* its href in pathname, search and hash.
C17_AgreesWithReference ==
  /\ location.pathname = RefPathname(location.href)
  /\ location.search = RefSearch(location.href)
  /\ location.hash = RefHash(location.href)
\* how many of the tasks a step has executed are push or replace tasks
PushReplaceCount ==
  Cardinality({k \in 1..Len(NewlyExecuted) : NewlyExecuted[k].op \in {"push", "replace"}})

\* a step that attempts a flush: a mutating call or retry
FlushAttempt == issued' # issued \/ Retry

\* C12: on the browser adapter with a listener registered, a flush attempt
\* notifies every registered listener once per push or replace task it
\* executed and not otherwise (nothing is synthesized after the drain, and
\* no change is reported twice).
C12_OncePerPushReplace ==
  [][(kind = "browser" /\ listeners # {} /\ FlushAttempt) =>
       \A c \in Callbacks :
         notified'[c] = (IF c \in listeners THEN PushReplaceCount ELSE 0)]_vars

\* two listeners, and one flush has run two push/replace tasks
C12_Witness ==
  /\ kind = "browser" /\ Cardinality(listeners) = 2 /\ ran = 2
  /\ \A c \in listeners : notified[c] = 2

\* C19 (as claimed, the "only" half): on the memory adapter a listener is
\* notified only by a call that executed at least one queued task.
C19_OnlyAfterTasks ==
  [][kind = "memory" =>
       \A c \in Callbacks : notified'[c] > 0 => executed' # executed]_vars

\* C19 (amended): on the memory adapter a listener is notified at most once
\* per call, only when registered, only by a flush attempt made with no
\* blocker installed and after the queue is empty; such a flush attempt
\* notifies every registered listener, whether or not it executed a task,
\* unless recomputing location throws, and then it notifies none.
C19_EveryUnblockedFlush ==
  [][kind = "memory" =>
       /\ \A c \in Callbacks :
            /\ notified'[c] <= 1
            /\ notified'[c] = 1 =>
                 (c \in listeners /\ blockers = <<>> /\ queue' = <<>> /\ FlushAttempt)
       /\ (FlushAttempt /\ blockers = <<>>) =>
            \A c \in listeners : notified'[c] = (IF err' THEN 0 ELSE 1)]_vars

\* a flush that found the queue empty has notified the registered listener
C19_Witness ==
  /\ kind = "memory" /\ listeners # {} /\ ran = 0 /\ ~err
  /\ \A c \in listeners : notified[c] = 1

====
